---- MODULE Spec2Model ----
(***************************************************************************)
(* A model of src/src/main.rs: the reward-grid state (MazeState), the two  *)
(* beam searches (beam_search_action, beam_search_with_time_threshold) and *)
(* the episode loop that drives a state to the turn limit.                 *)
(*                                                                         *)
(* The grid and the turn limit are scaled down (the source has H = W = 30, *)
(* END_TERN = 100 and rewards in 0..9); the code is translated unchanged.  *)
(***************************************************************************)
EXTENDS Integers, Sequences, FiniteSets

\* ------------------------------------------------------------ scale
\* const H / const W / const END_TERN of main.rs, scaled down.
H == 3
W == 3
END_TERN == 3
\* rewards are drawn from 0..RewardRange-1 (rng.gen_range(0..10) in the source)
RewardRange == 2
\* the beam widths and depths a search is called with
MaxBeamWidth == 2
MaxBeamDepth == 3

\* const moves: (dw, dh) pairs, in the source's order
moves == << <<0, 1>>, <<0, -1>>, <<1, 0>>, <<-1, 0>> >>

\* first_action of a state no search has stamped (MazeState::new)
NoAction == <<0, 0>>

Rows == 0 .. (H - 1)
Cols == 0 .. (W - 1)

\* ------------------------------------------------------------ MazeState
\* The grids MazeState::new can fill in: every cell gets a reward in
\* 0..RewardRange-1. The seeded generator's draws are modelled by the family
\* of grids points[h][w] = (a*h + b*w) % RewardRange, which holds the all-zero
\* grid (all keys tie), the striped grids and the diagonal gradients.
Grids ==
    { [h \in Rows |-> [w \in Cols |-> (a * h + b * w) % RewardRange]] :
        a \in 0 .. (RewardRange - 1), b \in 0 .. (RewardRange - 1) }

\* MazeState::new with the generator's draws given
NewState(points, h, w) ==
    [ points          |-> points,
      turns           |-> 0,
      game_score      |-> 0,
      evaluated_score |-> 0,
      character       |-> [h |-> h, w |-> w],
      first_action    |-> NoAction ]

\* a variant of is_done that lets one more turn pass
is_done_Late(s) == s.turns = END_TERN + 1

is_done(s) == s.turns = END_TERN

evaluate_score(s) == [s EXCEPT !.evaluated_score = s.game_score]

\* (h, w) indexes a cell of points
InGrid(h, w) == h \in Rows /\ w \in Cols

\* advance(_move) indexes points outside the grid: the index at line 59
\* panics, after lines 57-58 have moved the character
IndexPanics(s, m) == ~InGrid(s.character.h + m[2], s.character.w + m[1])

\* a variant of advance that empties the cell before it adds its reward
advance_ZeroFirst(s, m) ==
    LET nw == s.character.w + m[1]
        nh == s.character.h + m[2]
    IN  IF InGrid(nh, nw)
        THEN [s EXCEPT !.character  = [h |-> nh, w |-> nw],
                       !.points     = [@ EXCEPT ![nh] = [@ EXCEPT ![nw] = 0]],
                       !.turns      = @ + 1]
        ELSE [s EXCEPT !.character = [h |-> nh, w |-> nw]]

\* a variant of advance that leaves the reward in the cell
advance_NoDeplete(s, m) ==
    LET nw == s.character.w + m[1]
        nh == s.character.h + m[2]
    IN  IF InGrid(nh, nw)
        THEN [s EXCEPT !.character  = [h |-> nh, w |-> nw],
                       !.game_score = @ + s.points[nh][nw],
                       !.turns      = @ + 1]
        ELSE [s EXCEPT !.character = [h |-> nh, w |-> nw]]

\* a variant of advance that empties the cell the character leaves
advance_ZeroOld(s, m) ==
    LET nw == s.character.w + m[1]
        nh == s.character.h + m[2]
    IN  IF InGrid(nh, nw)
        THEN [s EXCEPT !.character  = [h |-> nh, w |-> nw],
                       !.game_score = @ + s.points[nh][nw],
                       !.points     = [@ EXCEPT ![s.character.h] =
                                           [@ EXCEPT ![s.character.w] = 0]],
                       !.turns      = @ + 1]
        ELSE [s EXCEPT !.character = [h |-> nh, w |-> nw]]

advance(s, m) ==
    LET nw == s.character.w + m[1]
        nh == s.character.h + m[2]
    IN  IF InGrid(nh, nw)
        THEN [s EXCEPT !.character  = [h |-> nh, w |-> nw],
                       !.game_score = @ + s.points[nh][nw],
                       !.points     = [@ EXCEPT ![nh] = [@ EXCEPT ![nw] = 0]],
                       !.turns      = @ + 1]
        ELSE [s EXCEPT !.character = [h |-> nh, w |-> nw]]

\* a variant of the test of line 68 with the bounds off by one
IsLegal_OffByOne(s, m) ==
    LET nw == s.character.w + m[1]
        nh == s.character.h + m[2]
    IN  0 <= nw /\ nw <= W /\ 0 <= nh /\ nh <= H

\* a variant of the test of line 68 that leaves out row 0 and column 0
IsLegal_ExcludesZero(s, m) ==
    LET nw == s.character.w + m[1]
        nh == s.character.h + m[2]
    IN  0 < nw /\ nw < W /\ 0 < nh /\ nh < H

\* the test of line 68
IsLegal(s, m) ==
    LET nw == s.character.w + m[1]
        nh == s.character.h + m[2]
    IN  0 <= nw /\ nw < W /\ 0 <= nh /\ nh < H

generate_legal_actions(s) == SelectSeq(moves, LAMBDA m : IsLegal(s, m))

SeqRange(q) == { q[k] : k \in 1 .. Len(q) }

\* ------------------------------------------------------------ policies
\* random_action: any of the legal actions
random_action_choices(s) == SeqRange(generate_legal_actions(s))

\* a variant of the loop of greedy_action that also takes an equal score
RECURSIVE GreedyLoop_LastBest(_, _, _, _, _)
GreedyLoop_LastBest(s, actions, k, best_score, best_action) ==
    IF k > Len(actions) THEN best_action
    ELSE LET now_state == evaluate_score(advance(s, actions[k]))
         IN  IF now_state.evaluated_score >= best_score
             THEN GreedyLoop_LastBest(s, actions, k + 1, now_state.evaluated_score, actions[k])
             ELSE GreedyLoop_LastBest(s, actions, k + 1, best_score, best_action)

\* the loop of greedy_action over actions[k..], with the best found so far
RECURSIVE GreedyLoop(_, _, _, _, _)
GreedyLoop(s, actions, k, best_score, best_action) ==
    IF k > Len(actions) THEN best_action
    ELSE LET now_state == evaluate_score(advance(s, actions[k]))
         IN  IF now_state.evaluated_score > best_score
             THEN GreedyLoop(s, actions, k + 1, now_state.evaluated_score, actions[k])
             ELSE GreedyLoop(s, actions, k + 1, best_score, best_action)

greedy_action(s) == GreedyLoop(s, generate_legal_actions(s), 1, -1, <<-1, -1>>)

\* ------------------------------------------------------------ the beam
\* A BinaryHeap<MazeState> is a collection of states ordered by
\* evaluated_score only (impl Ord). An entry pairs a state with the moves
\* that led to it from the root: the path is bookkeeping of the model, it
\* tells apart equal states the heap holds more than once.
Entry(s, path) == [st |-> s, path |-> path]

Key(e) == e.st.evaluated_score

\* a variant of pop for a reversed Ord: any entry of least key
PopChoices_Least(beam) == { e \in beam : \A f \in beam : Key(f) >= Key(e) }

\* the entries BinaryHeap::pop may return: any one of greatest key
PopChoices(beam) == { e \in beam : \A f \in beam : Key(f) <= Key(e) }

\* variants of the stamping: at depth 1 instead of 0, and at every depth
Stamp_AtDepthOne(next_state, action, depth) ==
    IF depth = 1 THEN [next_state EXCEPT !.first_action = action] ELSE next_state

Stamp_Always(next_state, action, depth) ==
    [next_state EXCEPT !.first_action = action]

\* lines 156-158 / 202-204: first_action is set at depth 0 only
Stamp(next_state, action, depth) ==
    IF depth = 0 THEN [next_state EXCEPT !.first_action = action] ELSE next_state

\* lines 153-159 / 199-205: one successor of now_state
Successor(now_state, action, depth) ==
    Stamp(evaluate_score(advance(now_state, action)), action, depth)

\* lines 151-160 / 197-206: all successors of a popped entry
Expand(e, depth) ==
    { Entry(Successor(e.st, a, depth), Append(e.path, a)) :
        a \in SeqRange(generate_legal_actions(e.st)) }

\* an advance of the expansion panics
ExpandPanics(e) ==
    \E a \in SeqRange(generate_legal_actions(e.st)) : IndexPanics(e.st, a)

\* ------------------------------------------------------------ state
VARIABLES
    state,       \* the episode's MazeState (play_game / test_ai_score)
    pc,          \* where the program is: "loop", "inner", "swap", "returned",
                 \* "panic", "done"
    mode,        \* the search running: "none", "depth", "time"
    beam_width,  \* argument of the search
    beam_depth,  \* argument of beam_search_action
    t,           \* the outer loop's depth
    i,           \* iterations of the beam-width loop done at this depth
    now_beam,    \* set of entries
    next_beam,   \* set of entries
    best_state,  \* an entry
    result,      \* the move the search returned
    done_beam,   \* bookkeeping: the frontier of the last completed depth
    over_at,     \* bookkeeping: <<t, i>> of the poll that found the time over
    visited,     \* bookkeeping: the cells advance has entered in this episode
    reentered,   \* bookkeeping: the last advance entered a cell of visited
    advances     \* bookkeeping: the advances of the episode loop

searchVars == <<mode, beam_width, beam_depth, t, i, now_beam, next_beam,
                best_state, result, done_beam, over_at>>
episodeVars == <<state, visited, reentered, advances>>
vars == <<state, pc, mode, beam_width, beam_depth, t, i, now_beam, next_beam,
          best_state, result, done_beam, over_at, visited, reentered, advances>>

NoPoll == <<-1, -1>>

\* best_state while no search runs (a placeholder, never read)
NoEntry == Entry(NewState([h \in Rows |-> [w \in Cols |-> 0]], 0, 0), <<>>)

Init ==
    /\ \E points \in Grids, h \in Rows, w \in Cols : state = NewState(points, h, w)
    /\ pc = "loop"
    /\ visited = {}
    /\ reentered = FALSE
    /\ advances = 0
    /\ mode = "none"
    /\ beam_width = 0
    /\ beam_depth = 0
    /\ t = 0
    /\ i = 0
    /\ now_beam = {}
    /\ next_beam = {}
    /\ best_state = NoEntry
    /\ result = NoAction
    /\ done_beam = {}
    /\ over_at = NoPoll

\* the search variables once a search's value has been used
ResetSearch ==
    /\ mode' = "none"
    /\ beam_width' = 0
    /\ beam_depth' = 0
    /\ t' = 0
    /\ i' = 0
    /\ now_beam' = {}
    /\ next_beam' = {}
    /\ best_state' = NoEntry
    /\ result' = NoAction
    /\ done_beam' = {}
    /\ over_at' = NoPoll

\* state.advance(m) in the episode loop, and the loop's next position
EpisodeAdvance(m) ==
    /\ state' = advance(state, m)
    /\ reentered' = (state'.character \in visited)
    /\ visited' = visited \cup {state'.character}
    /\ advances' = advances + 1
    /\ pc' = IF IndexPanics(state, m) THEN "panic" ELSE "loop"

\* ------------------------------------------------------------ episode loop
\* while !state.is_done() (lines 226, 238): the loop ends
LoopExit ==
    /\ pc = "loop"
    /\ is_done(state)
    /\ pc' = "done"
    /\ UNCHANGED <<episodeVars, searchVars>>

\* state.advance(random_action(&state))
RandomStep ==
    /\ pc = "loop"
    /\ ~is_done(state)
    /\ \E m \in random_action_choices(state) : EpisodeAdvance(m)
    /\ UNCHANGED searchVars

\* state.advance(greedy_action(&state)) (line 227)
GreedyStep ==
    /\ pc = "loop"
    /\ ~is_done(state)
    /\ EpisodeAdvance(greedy_action(state))
    /\ UNCHANGED searchVars

\* the position after the head of a depth's beam-width loop: for _ in
\* 0..beam_width runs no iteration when beam_width is 0
InnerOrSwap(width) == IF width = 0 THEN "swap" ELSE "inner"

\* beam_search_action(&state, bw, bd) is called (lines 143-146)
StartDepthSearch ==
    /\ pc = "loop"
    /\ ~is_done(state)
    /\ \E bw \in 0 .. MaxBeamWidth, bd \in 0 .. MaxBeamDepth :
        /\ mode' = "depth"
        /\ beam_width' = bw
        /\ beam_depth' = bd
        /\ best_state' = Entry(state, <<>>)
        /\ t' = 0
        /\ i' = 0
        /\ next_beam' = {}
        /\ IF bd = 0
           THEN \* for t in 0..0 runs no depth: line 173
                /\ now_beam' = {Entry(state, <<>>)}
                /\ result' = state.first_action
                /\ pc' = "returned"
           ELSE /\ now_beam' = {Entry(state, <<>>)}
                /\ result' = NoAction
                /\ pc' = InnerOrSwap(bw)
    /\ UNCHANGED <<episodeVars, done_beam, over_at>>

\* beam_search_with_time_threshold(&state, bw, ms) is called (lines 181-187)
StartTimeSearch ==
    /\ pc = "loop"
    /\ ~is_done(state)
    /\ \E bw \in 0 .. MaxBeamWidth :
        /\ mode' = "time"
        /\ beam_width' = bw
        /\ pc' = InnerOrSwap(bw)
    /\ beam_depth' = 0
    /\ best_state' = Entry(state, <<>>)
    /\ now_beam' = {Entry(state, <<>>)}
    /\ t' = 0
    /\ i' = 0
    /\ next_beam' = {}
    /\ result' = NoAction
    /\ UNCHANGED <<episodeVars, done_beam, over_at>>

\* a variant without the check of line 190
TimeOverPanics_Never(best) == FALSE

\* lines 190-193: what the search does when the time is over
TimeOverPanics(best) == best.st.first_action = NoAction

\* line 189: time_keeper.is_time_over() answers true at this poll
TimeOver ==
    /\ pc = "inner"
    /\ mode = "time"
    /\ over_at' = <<t, i>>
    /\ IF TimeOverPanics(best_state)
       THEN /\ pc' = "panic"
            /\ result' = result
       ELSE /\ pc' = "returned"
            /\ result' = best_state.st.first_action
    /\ UNCHANGED <<episodeVars, mode, beam_width, beam_depth, t, i, now_beam,
                   next_beam, best_state, done_beam>>

\* one iteration of the beam-width loop that pops a state (lines 149-161,
\* 195-207); in the time-bounded search the poll before it answered false
PopAndExpand ==
    /\ pc = "inner"
    /\ now_beam # {}
    /\ \E e \in PopChoices(now_beam) :
        /\ now_beam' = now_beam \ {e}
        /\ next_beam' = next_beam \cup Expand(e, t)
        /\ pc' = IF ExpandPanics(e) THEN "panic"
                 ELSE IF i + 1 = beam_width THEN "swap" ELSE "inner"
    /\ i' = i + 1
    /\ UNCHANGED <<episodeVars, mode, beam_width, beam_depth, t, best_state,
                   result, done_beam, over_at>>

\* the iteration that finds now_beam empty (None => break, lines 162, 208)
PopNone ==
    /\ pc = "inner"
    /\ now_beam = {}
    /\ pc' = "swap"
    /\ UNCHANGED <<episodeVars, mode, beam_width, beam_depth, t, i, now_beam,
                   next_beam, best_state, result, done_beam, over_at>>

\* a variant that leaves the popped best state out of the frontier
CarriedFrontier_BestDropped(next, best) == next \ {best}

\* lines 165-170 / 211-216: the frontier of the next depth is next_beam with
\* its best state popped (166) and pushed back (170)
CarriedFrontier(next, best) == (next \ {best}) \cup {best}

\* a variant of the depth-bounded head that stops one depth early
LoopHead_OneFewer(unbounded, depth, depths) == unbounded \/ depth + 1 < depths

\* the head of the outer loop lets depth in: for t in 0.. (line 186) always
\* does, for t in 0..beam_depth (line 146) while depth < beam_depth
LoopHead(unbounded, depth, depths) == unbounded \/ depth < depths

\* the outer loop goes on after depth t: for t in 0..beam_depth, for t in 0..
MoreDepths(depth) == LoopHead(mode = "time", depth + 1, beam_depth)

\* lines 165-170 / 211-216, and the head of the next depth
EndDepth ==
    /\ pc = "swap"
    /\ IF next_beam = {}
       THEN \* now_beam.pop().unwrap() on an empty heap
            /\ pc' = "panic"
            /\ now_beam' = {}
            /\ UNCHANGED <<t, i, next_beam, best_state, result, done_beam>>
       ELSE \E b \in PopChoices(next_beam) :
            /\ best_state' = b
            /\ done_beam' = next_beam
            /\ IF is_done(b.st)
               THEN /\ now_beam' = next_beam \ {b}
                    /\ result' = b.st.first_action
                    /\ pc' = "returned"
                    /\ UNCHANGED <<t, i, next_beam>>
               ELSE /\ now_beam' = CarriedFrontier(next_beam, b)
                    /\ IF MoreDepths(t)
                       THEN /\ t' = t + 1
                            /\ i' = 0
                            /\ next_beam' = {}
                            /\ result' = result
                            /\ pc' = InnerOrSwap(beam_width)
                       ELSE /\ result' = b.st.first_action
                            /\ pc' = "returned"
                            /\ UNCHANGED <<t, i, next_beam>>
    /\ UNCHANGED <<episodeVars, mode, beam_width, beam_depth, over_at>>

\* state.advance(<the search's value>) (lines 239, 240)
AdvanceWithResult ==
    /\ pc = "returned"
    /\ EpisodeAdvance(result)
    /\ ResetSearch

Next ==
    \/ LoopExit
    \/ RandomStep
    \/ GreedyStep
    \/ StartDepthSearch
    \/ StartTimeSearch
    \/ TimeOver
    \/ PopAndExpand
    \/ PopNone
    \/ EndDepth
    \/ AdvanceWithResult

Spec == Init /\ [][Next]_vars

\* the episode alone, every move drawn from generate_legal_actions
NextEpisode ==
    \/ LoopExit
    \/ RandomStep
    \/ GreedyStep

SpecEpisode == Init /\ [][NextEpisode]_vars

\* ------------------------------------------------------------ more grids
\* the 3 x 3 grid of the end-to-end scenario, rows from the top
ExampleRows == << <<0, 1, 2>>, <<3, 0, 1>>, <<2, 1, 0>> >>

ExampleGrid == [h \in Rows |-> [w \in Cols |-> ExampleRows[h + 1][w + 1]]]

\* a 3 x 3 grid of rewards in 0..9, the range MazeState::new draws from
DrawnRows == << <<9, 3, 4>>, <<5, 5, 8>>, <<9, 0, 0>> >>

DrawnGrid == [h \in Rows |-> [w \in Cols |-> DrawnRows[h + 1][w + 1]]]

\* the grids the policies are checked on
PolicyGrids == Grids \cup {ExampleGrid, DrawnGrid}

InitPolicy ==
    /\ \E points \in PolicyGrids, h \in Rows, w \in Cols :
            state = NewState(points, h, w)
    /\ pc = "loop"
    /\ visited = {}
    /\ reentered = FALSE
    /\ advances = 0
    /\ mode = "none"
    /\ beam_width = 0
    /\ beam_depth = 0
    /\ t = 0
    /\ i = 0
    /\ now_beam = {}
    /\ next_beam = {}
    /\ best_state = NoEntry
    /\ result = NoAction
    /\ done_beam = {}
    /\ over_at = NoPoll

\* the episode alone, on the grids of the policies
SpecPolicy == InitPolicy /\ [][NextEpisode]_vars

TypeOK ==
    /\ pc \in {"loop", "inner", "swap", "returned", "panic", "done"}
    /\ mode \in {"none", "depth", "time"}
    /\ state.turns \in 0 .. END_TERN

\* ------------------------------------------------------------ helpers of the claims
\* the root of the running search is the episode's state: the searches take
\* &state and the loop does not touch it until the search has returned
RootLegalMoves == { m \in SeqRange(moves) : InGrid(state.character.h + m[2],
                                                   state.character.w + m[1]) }

\* every entry a running search holds
AllEntries == now_beam \cup next_beam \cup done_beam \cup
              (IF mode = "none" THEN {} ELSE {best_state})

\* the root after the moves of path, one advance per move
RECURSIVE AdvanceAlong(_, _)
AdvanceAlong(s, path) ==
    IF path = <<>> THEN s ELSE AdvanceAlong(advance(s, Head(path)), Tail(path))

\* e has a greatest key among the entries of beam
IsGreatest(e, beam) == e \in beam /\ \A f \in beam : e.st.evaluated_score >= f.st.evaluated_score

\* ------------------------------------------------------------ claims
\* C1: time-bounded search, beam_width >= 1: when the guard first reports
\* expired at a poll after the root was expanded (any poll but the first of
\* depth 0), the search returns, does not fail, and returns a legal move of
\* the root. (The statement of the claim; the code violates it.)
C1_ExpiredAfterRootExpansionReturnsLegal ==
    (mode = "time" /\ beam_width >= 1 /\ over_at # NoPoll /\ over_at # <<0, 0>>)
        => (pc = "returned" /\ result \in RootLegalMoves)

\* C2: beam_search_action with beam_width >= 1 and beam_depth = END_TERN on a
\* root at turn 0 does not fail and returns a legal move of the root, never
\* the unset (0, 0).
C2_FullDepthReturnsLegal ==
    (mode = "depth" /\ beam_width >= 1 /\ beam_depth = END_TERN /\ state.turns = 0)
        => /\ pc # "panic"
           /\ pc = "returned" => (result \in RootLegalMoves /\ result # NoAction)

C2_Witness ==
    /\ mode = "depth" /\ beam_width >= 1 /\ beam_depth = END_TERN
    /\ state.turns = 0 /\ pc = "returned" /\ t = END_TERN - 1
    /\ result \in RootLegalMoves

\* C3: in every state reached by advances with moves of generate_legal_actions
\* (the episode's state and every state a search builds), the character is
\* inside the grid: 0 <= h < H and 0 <= w < W.
C3_PositionInGrid ==
    /\ InGrid(state.character.h, state.character.w)
    /\ \A e \in AllEntries : InGrid(e.st.character.h, e.st.character.w)

C3_Witness ==
    /\ advances >= 2
    /\ state.character = [h |-> H - 1, w |-> W - 1]
    /\ \E e \in next_beam : e.st.character = [h |-> H - 2, w |-> W - 1]

\* C4: time-bounded search: when the guard reports expired at the very first
\* poll, before the root is expanded, the search fails explicitly (panics) and
\* returns no move.
C4_ExpiredAtFirstPollPanics ==
    (mode = "time" /\ over_at = <<0, 0>>) => (pc = "panic" /\ result = NoAction)

C4_Witness == mode = "time" /\ over_at = <<0, 0>> /\ pc = "panic" /\ beam_width >= 1

\* C5: time-bounded search: when the guard first reports expired at a poll of
\* depth d >= 1, the search has returned without a further pop or expansion,
\* and the move is the first_action of a greatest-key state of the frontier
\* completed at depth d-1, whatever the unfinished depth has generated.
C5_ExpiredLaterReturnsBestOfCompleted ==
    (mode = "time" /\ over_at # NoPoll /\ over_at[1] >= 1)
        => /\ pc = "returned"
           /\ <<t, i>> = over_at
           /\ IsGreatest(best_state, done_beam)
           /\ result = best_state.st.first_action

C5_Witness ==
    /\ mode = "time" /\ over_at # NoPoll /\ over_at[1] >= 1 /\ pc = "returned"
    /\ \E e \in next_beam : /\ e.st.evaluated_score > best_state.st.evaluated_score
                            /\ e.st.first_action # result

\* C6: in both searches, when the next frontier is empty after a depth's
\* expansion, the search completes normally and returns
\* best_state.first_action. (The statement of the claim; the code violates it.)
C6_EmptyFrontierCompletes ==
    [][(pc = "swap" /\ next_beam = {})
          => (pc' = "returned" /\ result' = best_state.st.first_action)]_vars

\* C7: every state of a frontier is the root advanced along its own path and
\* carries as first_action the first move of that path; the root keeps its
\* unset first_action, and advance never changes first_action.
C7_FirstActionIsFirstMoveOfPath ==
    /\ state.first_action = NoAction
    /\ \A e \in AllEntries :
        IF e.path = <<>>
        THEN e.st = state
        ELSE LET r == AdvanceAlong(state, e.path)
             IN  /\ e.st.first_action = e.path[1]
                 /\ e.st = [r EXCEPT !.first_action = e.path[1],
                                     !.evaluated_score = r.game_score]

C7_Witness ==
    \E e \in next_beam : Len(e.path) >= 3 /\ e.path[3] # e.path[1] /\ e.path[2] # e.path[1]

\* C8: game_score never decreases in an episode; one advance adds the reward
\* the entered cell holds at that moment, so it strictly increases the score
\* iff that reward is nonzero.
C8_ScoreStep ==
    [][advances' # advances =>
        LET c == state'.character
            r == state.points[c.h][c.w]
        IN  /\ state'.game_score = state.game_score + r
            /\ state'.game_score >= state.game_score
            /\ (state'.game_score > state.game_score) <=> (r # 0)]_vars

C8_Witness == advances >= 2 /\ state.game_score >= 2 /\ reentered = FALSE

\* C9: once an advance has entered a cell, the cell holds no reward, and every
\* later advance of the episode into it adds 0 to game_score.
C9_ReentryAddsNothing ==
    [][advances' # advances =>
        /\ \A c \in visited' : state'.points[c.h][c.w] = 0
        /\ state'.character \in visited => state'.game_score = state.game_score]_vars

C9_Witness == reentered /\ advances >= 3 /\ state.game_score >= 1

\* C10: turns starts at 0 and grows by 1 with every advance; is_done holds iff
\* turns = END_TERN; the episode loop ends after exactly END_TERN advances and
\* runs no policy and no advance on a terminal state.
C10_EpisodeLength ==
    /\ state.turns = advances
    /\ is_done(state) <=> (advances = END_TERN)
    /\ advances <= END_TERN
    /\ pc = "done" => advances = END_TERN
    /\ pc \in {"inner", "swap", "returned"} => advances < END_TERN

C10_Witness == pc = "done" /\ advances = END_TERN /\ state.turns = END_TERN

\* ------------------------------------------------------------ claims, continued
\* the key of the root's successor by move m
OneStepKey(s, m) == evaluate_score(advance(s, m)).evaluated_score

\* the sentinel greedy_action starts from
NoMoveFound == <<-1, -1>>

\* C11: greedy_action returns a legal move whose successor has the greatest
\* key, the first such move in the order of generate_legal_actions; it
\* returns the sentinel (-1, -1) only for an empty list of actions. On the
\* example grid with the character at (0, 0) it returns the move into cell
\* (1, 0), and the score after that advance is 3.
C11_GreedyPicksFirstGreatest ==
    (pc = "loop" /\ ~is_done(state)) =>
        LET la == generate_legal_actions(state)
            g  == greedy_action(state)
        IN  /\ la # <<>>
            /\ g # NoMoveFound
            /\ \E k \in 1 .. Len(la) :
                /\ la[k] = g
                /\ \A j \in 1 .. Len(la) :
                    /\ OneStepKey(state, la[j]) <= OneStepKey(state, g)
                    /\ j < k => OneStepKey(state, la[j]) < OneStepKey(state, g)
            /\ GreedyLoop(state, <<>>, 1, -1, NoMoveFound) = NoMoveFound
            /\ state = NewState(ExampleGrid, 0, 0) =>
                /\ advance(state, g).character = [h |-> 1, w |-> 0]
                /\ advance(state, g).game_score = 3

C11_Witness ==
    /\ advances = 1
    /\ state = advance(NewState(ExampleGrid, 0, 0), greedy_action(NewState(ExampleGrid, 0, 0)))
    /\ state.character = [h |-> 1, w |-> 0]
    /\ state.game_score = 3

\* q lists some of the entries of moves, each once, in the order of moves
InTableOrder(q) ==
    \E pos \in [1 .. Len(q) -> 1 .. Len(moves)] :
        /\ \A k \in 1 .. Len(q) : moves[pos[k]] = q[k]
        /\ \A j, k \in 1 .. Len(q) : j < k => pos[j] < pos[k]

\* C17: generate_legal_actions returns exactly the moves of the table that
\* keep the character inside the H x W grid, in the table's order. (That the
\* call leaves the state alone is its &self signature: the model's operator
\* has no state to change.)
C17_LegalMovesExact ==
    /\ SeqRange(generate_legal_actions(state)) = RootLegalMoves
    /\ InTableOrder(generate_legal_actions(state))
    /\ \A e \in AllEntries :
        SeqRange(generate_legal_actions(e.st)) =
            { m \in SeqRange(moves) : InGrid(e.st.character.h + m[2],
                                             e.st.character.w + m[1]) }

C17_Witness ==
    /\ advances >= 1
    /\ state.character = [h |-> H - 1, w |-> 0]
    /\ generate_legal_actions(state) = << <<0, -1>>, <<1, 0>> >>

\* the sum of the rewards of a grid
RECURSIVE RowSum(_, _)
RowSum(row, w) == IF w < 0 THEN 0 ELSE row[w] + RowSum(row, w - 1)

RECURSIVE GridSum(_, _)
GridSum(points, h) ==
    IF h < 0 THEN 0 ELSE RowSum(points[h], W - 1) + GridSum(points, h - 1)

TotalReward(s) == GridSum(s.points, H - 1)

\* C18: every legal advance keeps game_score plus the rewards left in the
\* grid unchanged, leaves every cell but the entered one as it was, and all
\* rewards stay >= 0; so the grid's total never increases.
C18_RewardConserved ==
    [][advances' # advances =>
        /\ state'.game_score + TotalReward(state') = state.game_score + TotalReward(state)
        /\ \A h \in Rows, w \in Cols :
            /\ [h |-> h, w |-> w] # state'.character
                  => state'.points[h][w] = state.points[h][w]
            /\ state'.points[h][w] >= 0
        /\ TotalReward(state') <= TotalReward(state)]_vars

C18_Witness ==
    /\ advances >= 2
    /\ state.game_score >= 2
    /\ TotalReward(state) >= 1
    /\ state.points[state.character.h][state.character.w] = 0

\* ------------------------------------------------------------ C14
\* the frontier the depth under way started from
CurrentFrontier == IF t = 0 THEN {Entry(state, <<>>)} ELSE done_beam

\* the entries of that frontier popped so far at this depth
Popped == CurrentFrontier \ now_beam

Min(a, b) == IF a <= b THEN a ELSE b

\* C14: at every depth of either search, the inner loop pops
\* min(beam_width, size of the frontier) entries, no entry left in the
\* frontier has a key greater than a popped one, next_beam is exactly the
\* successors of the popped entries, and the frontier a depth hands to the
\* next one is the whole next_beam (taking the best state removes nothing)
C14_PopsTheBestAndKeepsAll ==
    /\ [](mode # "none" /\ pc \in {"inner", "swap"} =>
            /\ now_beam \subseteq CurrentFrontier
            /\ Cardinality(Popped) = i
            /\ i <= Min(beam_width, Cardinality(CurrentFrontier))
            /\ pc = "swap" => i = Min(beam_width, Cardinality(CurrentFrontier))
            /\ \A u \in now_beam, p \in Popped : Key(u) <= Key(p)
            /\ next_beam = UNION { Expand(p, t) : p \in Popped })
    /\ [][pc = "swap" /\ t' = t + 1 =>
            /\ now_beam' = next_beam
            /\ done_beam' = next_beam
            /\ best_state' \in now_beam']_vars

\* a depth after the first has ended its inner loop with a full beam and
\* has left behind an entry of a smaller key than one it expanded
C14_Witness ==
    /\ pc = "swap"
    /\ t >= 1
    /\ i = beam_width
    /\ \E u \in now_beam, p \in Popped : Key(u) < Key(p)
    /\ Cardinality(next_beam) > Cardinality(CurrentFrontier)

\* ------------------------------------------------------------ C15
\* C15: from a root below the turn limit no search holds a state whose
\* turns exceed END_TERN; the states of the frontier of depth t all have
\* turns = root turns + t + 1 and the states being expanded are below the
\* limit; the loop is under way only while the best state is not terminal,
\* and when it stops on a terminal best state the whole frontier of that
\* depth is terminal
C15_NoStateBeyondTheLimit ==
    mode # "none" =>
        /\ \A e \in AllEntries :
                /\ e.st.turns <= END_TERN
                /\ e.st.turns = state.turns + Len(e.path)
        /\ \A e \in next_beam : e.st.turns = state.turns + t + 1
        /\ pc \in {"inner", "swap"} =>
                /\ ~is_done(best_state.st)
                /\ \A e \in CurrentFrontier :
                        e.st.turns = state.turns + t /\ ~is_done(e.st)
        /\ (pc = "returned" /\ is_done(best_state.st)) =>
                /\ t + 1 = END_TERN - state.turns
                /\ \A e \in done_beam : is_done(e.st)

\* a time-bounded search has stopped on a terminal best state after more
\* than one depth, with several states in its last frontier
C15_Witness ==
    /\ mode = "time"
    /\ pc = "returned"
    /\ is_done(best_state.st)
    /\ t >= 1
    /\ Cardinality(done_beam) >= 2

\* ------------------------------------------------------------ C19
\* a search that has been called runs on: the program is sequential, so the
\* steps of its loops are taken as long as they are enabled
SearchStep == PopAndExpand \/ PopNone \/ EndDepth

SpecFair == Spec /\ WF_vars(SearchStep)

\* the time-bounded search with a beam of at least one state is running
TimeSearchRuns == mode = "time" /\ beam_width >= 1 /\ pc \in {"inner", "swap"}

\* C19: a time-bounded search with beam_width >= 1 from a root below the
\* turn limit ends, whether or not the time is ever over: it never
\* completes more than END_TERN - root turns depths, it panics only after a
\* poll that found the time over, and once running it returns or panics
C19_TimeSearchTerminates ==
    /\ [](mode = "time" /\ beam_width >= 1 =>
            /\ state.turns < END_TERN
            /\ t + 1 <= END_TERN - state.turns
            /\ i <= beam_width
            /\ pc = "panic" => over_at # NoPoll
            /\ (pc = "returned" /\ over_at = NoPoll) =>
                    /\ t + 1 = END_TERN - state.turns
                    /\ result \in RootLegalMoves)
    /\ (TimeSearchRuns ~> (mode = "time" /\ pc \in {"returned", "panic"}))

\* a search whose time was never over has returned after all the depths
\* the turn limit allows, more than one
C19_Witness ==
    /\ mode = "time"
    /\ beam_width >= 1
    /\ pc = "returned"
    /\ over_at = NoPoll
    /\ t + 1 = END_TERN - state.turns
    /\ t >= 2

\* ------------------------------------------------------------ the searches as functions
\* The two searches are functions of their arguments once the time is never
\* over, up to the order in which BinaryHeap::pop returns states of equal
\* key. The operators below compute, with the definitions the actions use,
\* every outcome the loops of lines 146-171 / 186-217 can have.

\* a beam wide enough for every frontier of the scaled grid
WideBeam == Len(moves) ^ END_TERN

\* lines 148-164: the sets of entries the beam-width loop may pop from beam
\* in n iterations. Every pop takes a state of greatest key, so the states
\* of greatest key go first, all of them when there are at most n (the
\* pops left go on with the rest of the beam), any n of them otherwise
RECURSIVE PoppedSets(_, _)
PoppedSets(beam, n) ==
    IF beam = {} \/ n = 0 THEN {{}}
    ELSE LET top == PopChoices(beam) IN
         IF Cardinality(top) <= n
         THEN { top \cup rest :
                    rest \in PoppedSets(beam \ top, n - Cardinality(top)) }
         ELSE { x \in SUBSET top : Cardinality(x) = n }

\* an outcome of a search: the best state it ended with, or the panic of
\* pop().unwrap() on an empty heap
Outcome(best, panics) == [best |-> best, panics |-> panics]

\* the outcomes of the outer loop entered at depth with frontier now
RECURSIVE LoopOutcomes(_, _, _, _, _, _)
LoopOutcomes(now, best, depth, width, unbounded, depths) ==
    IF ~LoopHead(unbounded, depth, depths) THEN {Outcome(best, FALSE)}
    ELSE UNION {
        LET next == UNION { Expand(p, depth) : p \in popped } IN
        IF next = {} THEN {Outcome(best, TRUE)}
        ELSE UNION {
            IF is_done(b.st) THEN {Outcome(b, FALSE)}
            ELSE LoopOutcomes(CarriedFrontier(next, b), b, depth + 1, width,
                              unbounded, depths) :
            b \in PopChoices(next) } :
        popped \in PoppedSets(now, width) }

\* beam_search_action(s, width, depths)
DepthSearch(s, width, depths) ==
    LoopOutcomes({Entry(s, <<>>)}, Entry(s, <<>>), 0, width, FALSE, depths)

\* beam_search_with_time_threshold(s, width, _) when is_time_over is never
\* true
TimeSearch(s, width) ==
    LoopOutcomes({Entry(s, <<>>)}, Entry(s, <<>>), 0, width, TRUE, 0)

\* the moves a set of outcomes returns (lines 173, 219)
ReturnedMoves(outcomes) ==
    { o.best.st.first_action : o \in { x \in outcomes : ~x.panics } }

\* the loops of the actions take the steps of the function: the beam-width
\* loop has popped one of PoppedSets, and a search that returned with the
\* time never over stopped at its loop head or on a terminal best state of
\* greatest key in the last frontier
RunsTakeTheStepsOfTheFunction ==
    /\ (mode # "none" /\ pc = "swap") =>
            Popped \in PoppedSets(CurrentFrontier, beam_width)
    /\ (mode # "none" /\ pc = "returned" /\ over_at = NoPoll /\ done_beam # {}) =>
            /\ best_state \in PopChoices(done_beam)
            /\ result = best_state.st.first_action
            /\ is_done(best_state.st) \/ ~LoopHead(mode = "time", t + 1, beam_depth)

\* ------------------------------------------------------------ C16
\* the depths a depth-bounded search is given that reach the turn limit
DepthsToTheLimit(s) == (END_TERN - s.turns) .. (MaxBeamDepth + 1)

\* C16: from a non-terminal root and with the time never over, the
\* time-bounded search has exactly the outcomes of the depth-bounded search
\* with the same beam width and a depth of at least END_TERN - root turns,
\* so the sets of moves they may return coincide; and the runs of both
\* searches take the steps of that function, stopping after the same
\* number of depths on a terminal best state
C16_TimeSearchIsDepthSearch ==
    /\ (pc = "loop" /\ ~is_done(state)) =>
            \A width \in 0 .. MaxBeamWidth :
                LET timed == TimeSearch(state, width) IN
                \A depths \in DepthsToTheLimit(state) :
                    LET bounded == DepthSearch(state, width, depths) IN
                    /\ timed = bounded
                    /\ ReturnedMoves(timed) = ReturnedMoves(bounded)
    /\ RunsTakeTheStepsOfTheFunction
    /\ (pc = "returned" /\ over_at = NoPoll /\ beam_width >= 1
            /\ (mode = "time" \/ (mode = "depth"
                                    /\ beam_depth \in DepthsToTheLimit(state)))) =>
            /\ t + 1 = END_TERN - state.turns
            /\ is_done(best_state.st)

\* a time-bounded search with a beam of two has returned, its time never
\* over, after three depths, from a root where the searches may return
\* more than one move
C16_Witness ==
    /\ mode = "time"
    /\ pc = "returned"
    /\ over_at = NoPoll
    /\ beam_width = 2
    /\ t >= 2
    /\ result # NoAction
    /\ Cardinality(ReturnedMoves(TimeSearch(state, beam_width))) >= 2

\* ------------------------------------------------------------ C20
\* the sequences of n moves, each legal where it is made, from s
RECURSIVE LegalPaths(_, _)
LegalPaths(s, n) ==
    IF n = 0 THEN {<<>>}
    ELSE UNION { { <<a>> \o p : p \in LegalPaths(advance(s, a), n - 1) } :
                    a \in SeqRange(generate_legal_actions(s)) }

\* the reward the moves of path collect from s
Collected(s, path) == AdvanceAlong(s, path).game_score - s.game_score

\* the sequences of LegalPaths(s, n) that collect the most
BestPaths(s, n) ==
    { p \in LegalPaths(s, n) :
        \A q \in LegalPaths(s, n) : Collected(s, q) <= Collected(s, p) }

\* the first moves of the non-empty sequences of a set
FirstMoves(paths) == { Head(p) : p \in { q \in paths : q # <<>> } }

\* the beam never prunes in the first depths depths of a search from s:
\* every frontier it pops from has at most width states
NeverPrunes(s, width, depths) ==
    \A k \in 0 .. depths - 1 : Cardinality(LegalPaths(s, k)) <= width

\* C20 as stated, for every depth from 0 on: without pruning, the
\* depth-bounded search returns the first move of a sequence of
\* min(depths, END_TERN - root turns) legal moves that collects the most
C20_ExhaustiveForEveryDepth ==
    (mode = "depth" /\ pc = "returned"
        /\ NeverPrunes(state, beam_width, beam_depth)) =>
        result \in FirstMoves(BestPaths(state,
                               Min(beam_depth, END_TERN - state.turns)))

\* C20, amended: for a depth of at least 1, without pruning, the moves the
\* depth-bounded search may return are exactly the first moves of the
\* sequences of min(depths, END_TERN - root turns) legal moves that collect
\* the most, and its best state is the end of such a sequence; with depth 0
\* it expands nothing and returns the first_action of the root
C20_ExhaustiveFromDepthOne ==
    /\ (pc = "loop" /\ ~is_done(state)) =>
            /\ \A depths \in 1 .. MaxBeamDepth + 1 :
                  LET n == Min(depths, END_TERN - state.turns) IN
                  /\ NeverPrunes(state, WideBeam, n)
                  /\ ReturnedMoves(DepthSearch(state, WideBeam, depths)) =
                        FirstMoves(BestPaths(state, n))
                  /\ \A o \in DepthSearch(state, WideBeam, depths) :
                        /\ ~o.panics
                        /\ o.best.path \in BestPaths(state, n)
                        /\ o.best.st.first_action = Head(o.best.path)
            /\ ReturnedMoves(DepthSearch(state, WideBeam, 0)) =
                    {state.first_action}
    /\ (mode = "depth" /\ pc = "returned" /\ beam_depth >= 1
            /\ NeverPrunes(state, beam_width, beam_depth)) =>
            /\ best_state.path \in BestPaths(state,
                                    Min(beam_depth, END_TERN - state.turns))
            /\ result = Head(best_state.path)
    /\ (mode = "depth" /\ pc = "returned" /\ beam_depth = 0) =>
            result = state.first_action

\* a depth-bounded search of two depths or more that did not prune has
\* returned from a root where not every first move is a best one
C20_Witness ==
    /\ mode = "depth"
    /\ pc = "returned"
    /\ beam_depth >= 2
    /\ t >= 1
    /\ NeverPrunes(state, beam_width, beam_depth)
    /\ FirstMoves(BestPaths(state, t + 1)) # SeqRange(generate_legal_actions(state))

\* ------------------------------------------------------------ the episode of the searches
\* state.advance(beam_search_with_time_threshold(&state, 10, 10)) (line 240)
\* when the time is never over, the search taken as a function; the beam
\* of 10 is scaled to 1 (the narrowest) and to the number of moves
SearchPolicyStep ==
    /\ pc = "loop"
    /\ ~is_done(state)
    /\ \E width \in {1, Len(moves)} :
        \E m \in ReturnedMoves(TimeSearch(state, width)) : EpisodeAdvance(m)
    /\ UNCHANGED searchVars

NextSearch ==
    \/ LoopExit
    \/ GreedyStep
    \/ SearchPolicyStep

\* the episodes of play_game and test_ai_score on the grids of the policies
SpecSearch == InitPolicy /\ [][NextSearch]_vars

\* ------------------------------------------------------------ C12
\* the searches that are not bounded in width or depth: a beam of at least
\* the number of moves, and all the depths the turn limit leaves or a time
\* that is never over
UnboundedSearches(s) ==
    UNION { { TimeSearch(s, width), DepthSearch(s, width, END_TERN) } :
                width \in {Len(moves), WideBeam} }

\* the score of the root after one advance of greedy_action
GreedyScore(s) == advance(s, greedy_action(s)).game_score

\* C12 as stated: the move a search with a beam of at least the number of
\* moves and unbounded depth or time returns has a one-step score of at
\* least that of the move of greedy_action on the same root
C12_ReturnedMoveBeatsGreedy ==
    (pc = "loop" /\ ~is_done(state)) =>
        \A outcomes \in UnboundedSearches(state) :
            \A m \in ReturnedMoves(outcomes) :
                advance(state, m).game_score >= GreedyScore(state)

\* C12, amended: such a search does not fail, it returns a legal move of
\* the root, the first move of the path of its best state, and the score
\* of that best state is at least the score of the root after one advance
\* of the move of greedy_action
C12_BestStateBeatsGreedy ==
    (pc = "loop" /\ ~is_done(state)) =>
        \A outcomes \in UnboundedSearches(state) :
            \A o \in outcomes :
                /\ ~o.panics
                /\ o.best.st.first_action \in RootLegalMoves
                /\ o.best.st.first_action = Head(o.best.path)
                /\ o.best.st.game_score = AdvanceAlong(state, o.best.path).game_score
                /\ o.best.st.game_score >= GreedyScore(state)

\* the episode has advanced by a move and is at a root where a search of
\* beam Len(moves) returns a move of a smaller one-step score than the move
\* of greedy_action
C12_Witness ==
    /\ pc = "loop"
    /\ advances >= 1
    /\ state.turns < END_TERN - 1
    /\ \E m \in ReturnedMoves(TimeSearch(state, Len(moves))) :
            advance(state, m).game_score < GreedyScore(state)

\* ------------------------------------------------------------ C13
\* the scores of the best states a set of outcomes ends with
BestScores(outcomes) ==
    { o.best.st.game_score : o \in { x \in outcomes : ~x.panics } }

\* C13 as stated: for every depth, the best state of the search with a beam
\* of 1 has a score of at most that of the search with any larger beam
C13_NarrowNeverBeatsLarger ==
    (pc = "loop" /\ ~is_done(state)) =>
        \A depths \in 0 .. MaxBeamDepth :
            \A width \in 2 .. MaxBeamWidth :
                \A narrow \in BestScores(DepthSearch(state, 1, depths)) :
                    \A larger \in BestScores(DepthSearch(state, width, depths)) :
                        narrow <= larger

\* C13, amended: for every depth, the best state of the search with a beam
\* of 1 has a score of at most that of the search with a beam that never
\* prunes (at least as large as every frontier)
C13_NarrowNeverBeatsUnpruned ==
    (pc = "loop" /\ ~is_done(state)) =>
        \A depths \in 0 .. MaxBeamDepth + 1 :
            /\ NeverPrunes(state, WideBeam, Min(depths, END_TERN - state.turns))
            /\ \A o \in DepthSearch(state, 1, depths) \cup
                          DepthSearch(state, WideBeam, depths) : ~o.panics
            /\ \A narrow \in BestScores(DepthSearch(state, 1, depths)) :
                    \A unpruned \in BestScores(DepthSearch(state, WideBeam, depths)) :
                        narrow <= unpruned

\* the episode has advanced by a move and is at a root where the search
\* with a beam of 1 may end strictly below the search that never prunes
C13_Witness ==
    /\ pc = "loop"
    /\ advances >= 1
    /\ state.turns < END_TERN - 1
    /\ \E narrow \in BestScores(DepthSearch(state, 1, END_TERN)) :
            \A unpruned \in BestScores(DepthSearch(state, WideBeam, END_TERN)) :
                narrow < unpruned

====
